---- MODULE Spec2Model ----
(***************************************************************************)
(* A model of the triad toolchain: the slicer's type registry and          *)
(* function extraction (src/slicer), the mapper's dependency ordering      *)
(* (src/mapper) and the conductor's batch dispatch over the task store     *)
(* (src/conductor).  Each stage is a program of its own, connected to the  *)
(* others only by files, so each has a specification of its own:           *)
(* SpecMapper, SpecRegistry, SpecSlicer and SpecConductor.                 *)
(***************************************************************************)
EXTENDS Integers, Sequences, FiniteSets, TLC

VARIABLES
    \* ---- mapper (src/mapper/src/main.rs) ----
    mp_pc,          \* position of the mapper's main
    units,          \* the parsed units.json: a sequence of [id, dependencies]
    graph,          \* the dependency graph: [n, label, edges]
    sccs,           \* the result of tarjan_scc: a sequence of sequences of nodes
    cond_graph,     \* the condensed graph: [n, edges]
    batches,        \* the emitted build order
    analyses,       \* the analyses of cycle_analysis.json
    \* ---- slicer (src/slicer/src/main.rs) ----
    sl_pc,          \* position of the slicer's main: the pass it is in
    sl_nfiles,      \* files_to_process.len()
    sl_file,        \* the index of the file the current pass is at
    type_registry,  \* the TypeRegistry: [types]
    reg_log,        \* history: the register_type calls made, in order
    out_units,      \* the units vector of the slicer's main
    \* ---- conductor (src/conductor/src/main.rs, db.rs) ----
    cd_pc,          \* position of the conductor's main
    cd_run,         \* which run of the conductor over blackboard.db this is
    build_order,    \* the batches of build_order.json: sequences of unit ids
    units_map,      \* the ids of units.json
    batch_i,        \* the index of the batch the outer loop is at
    unit_pos,       \* the position in the batch the inner loop is at
    futures,        \* the process_unit futures pushed in this run
    tasks           \* the rows of the tasks table

mapperVars == <<mp_pc, units, graph, sccs, cond_graph, batches, analyses>>

slicerVars == <<sl_pc, sl_nfiles, sl_file, type_registry, reg_log, out_units>>

conductorVars ==
    <<cd_pc, cd_run, build_order, units_map, batch_i, unit_pos, futures, tasks>>

vars == <<mp_pc, units, graph, sccs, cond_graph, batches, analyses,
          sl_pc, sl_nfiles, sl_file, type_registry, reg_log, out_units,
          cd_pc, cd_run, build_order, units_map, batch_i, unit_pos, futures, tasks>>

(***************************************************************************)
(* Bounds of the model.                                                    *)
(***************************************************************************)
MaxUnits == 3       \* units in a small mapper input
MaxEdges == 3       \* dependency entries, over all units of a small input
MaxRing == 21       \* units of the largest ring-shaped mapper input
MaxHub == 4         \* units of the largest hub-shaped mapper input
MaxRegs == 3        \* register_type calls in a run of the registry
MaxFiles == 2       \* source files of a slicer run
MaxTypes == 2       \* type definitions captured in one file
MaxFuncs == 1       \* function definitions over all files of a slicer run
MaxNodes == 2       \* call and type nodes under one function definition
MaxBatches == 2     \* batches of a build order the conductor reads
MaxRuns == 2        \* runs of the conductor over one blackboard.db

(***************************************************************************)
(* Generic helpers.                                                        *)
(***************************************************************************)
Range(s) == {s[i] : i \in DOMAIN s}

Reverse(s) == [k \in DOMAIN s |-> s[Len(s) + 1 - k]]

MinOf(S) == CHOOSE x \in S : \A y \in S : x <= y

\* Option<T>: None is the empty sequence, Some(x) the one-element sequence.
None == <<>>
Some(x) == <<x>>

(***************************************************************************)
(* MAPPER.  Unit ids and dependency names are strings in the program; the  *)
(* mapper only hashes and compares them, so the model uses numbers.  The   *)
(* name 0 is never a unit id (an extern such as a libc function).          *)
(***************************************************************************)

\* nodes.insert(unit.id, idx) in input order: the map ends with the index of
\* the LAST unit that carries the id.
HasNode(us, id) == \E i \in DOMAIN us : us[i].id = id

NodeOf(us, id) ==
    CHOOSE i \in DOMAIN us :
        us[i].id = id /\ \A j \in DOMAIN us : us[j].id = id => j <= i

\* A loop over unit.dependencies that ends at the first name that is no key of
\* nodes.
RECURSIVE DepEdgesStop(_, _, _)
DepEdgesStop(us, from, deps) ==
    IF deps = <<>> THEN <<>>
    ELSE IF HasNode(us, Head(deps))
         THEN << <<from, NodeOf(us, Head(deps))>> >> \o DepEdgesStop(us, from, Tail(deps))
         ELSE <<>>

\* The inner loop over unit.dependencies: one edge per dependency that is a key
\* of nodes, in order; parallel edges are kept (add_edge).
RECURSIVE DepEdges(_, _, _)
DepEdges(us, from, deps) ==
    IF deps = <<>> THEN <<>>
    ELSE (IF HasNode(us, Head(deps))
            THEN << <<from, NodeOf(us, Head(deps))>> >>
            ELSE <<>>)
         \o DepEdges(us, from, Tail(deps))

RECURSIVE GraphEdges(_, _)
GraphEdges(us, i) ==
    IF i > Len(us) THEN <<>>
    ELSE DepEdges(us, NodeOf(us, us[i].id), us[i].dependencies)
         \o GraphEdges(us, i + 1)

\* The graph after the two loops: node i is the i-th unit, labelled with its id.
BuildGraph(us) ==
    [n |-> Len(us),
     label |-> [i \in 1..Len(us) |-> us[i].id],
     edges |-> GraphEdges(us, 1)]

\* graph.neighbors(v): the targets of v's outgoing edges, the most recently
\* added edge first (petgraph's adjacency list is prepended to).
Neighbors(edges, v) ==
    LET out == SelectSeq(edges, LAMBDA e : e[1] = v)
    IN  [k \in DOMAIN out |-> out[Len(out) + 1 - k][2]]

(***************************************************************************)
(* tarjan_scc(&graph): petgraph's TarjanScc (Pearce's variant).  rootindex *)
(* 0 stands for None; a node of a finished component gets the component    *)
(* mark cc, a number above every index, counted down.  Components are      *)
(* emitted in postorder: a component after every component it reaches.     *)
(* The recursion of visit is unfolded over an explicit stack of calls,     *)
(* each [v, ws, local_root]: the node, its neighbours still to look at,    *)
(* and whether it is still the root of its component.                      *)
(***************************************************************************)
MaxOf(S) == CHOOSE x \in S : \A y \in S : y <= x

\* The comparison after the (possible) visit of neighbour w of the top call.
TarjanLower(st, w) ==
    LET top == Len(st.calls)
        v == st.calls[top].v
    IN  IF st.root[w] < st.root[v]
        THEN [st EXCEPT !.root[v] = st.root[w], !.calls[top].local_root = FALSE]
        ELSE st

\* The entry of visit(v): v gets the next index.
TarjanEnter(g, st, v) ==
    [st EXCEPT !.root[v] = st.index,
               !.index = st.index + 1,
               !.calls = Append(st.calls,
                            [v |-> v, ws |-> Neighbors(g.edges, v), local_root |-> TRUE])]

\* The end of visit(v): a local root pops its component off the stack and
\* emits it (the root last); any other node is pushed on the stack.
TarjanLeave(st) ==
    LET top == Len(st.calls)
        v == st.calls[top].v
        rest == SubSeq(st.calls, 1, top - 1)
    IN  IF st.calls[top].local_root
        THEN LET start == MaxOf({0} \cup {p \in DOMAIN st.stack :
                                            st.root[v] > st.root[st.stack[p]]})
                 scc == SubSeq(st.stack, start + 1, Len(st.stack)) \o <<v>>
             IN  [root |-> [x \in DOMAIN st.root |->
                               IF x \in Range(scc) THEN st.cc ELSE st.root[x]],
                  index |-> st.index - Len(scc),
                  cc |-> st.cc - 1,
                  stack |-> SubSeq(st.stack, 1, start),
                  sccs |-> Append(st.sccs, scc),
                  calls |-> rest]
        ELSE [st EXCEPT !.stack = Append(st.stack, v), !.calls = rest]

RECURSIVE TarjanRun(_, _, _)
TarjanRun(g, next, st) ==
    IF st.calls = <<>>
    THEN \* run: the loop over the nodes, in index order
         IF next > g.n THEN st
         ELSE IF st.root[next] = 0
              THEN TarjanRun(g, next + 1, TarjanEnter(g, st, next))
              ELSE TarjanRun(g, next + 1, st)
    ELSE LET top == Len(st.calls)
             call == st.calls[top]
         IN  IF call.ws = <<>>
             THEN \* visit(v) returns; its caller compares with v's rootindex
                  LET left == TarjanLeave(st)
                  IN  TarjanRun(g, next,
                          IF left.calls = <<>> THEN left ELSE TarjanLower(left, call.v))
             ELSE LET w == Head(call.ws)
                      st1 == [st EXCEPT !.calls[top].ws = Tail(call.ws)]
                  IN  IF st.root[w] = 0
                      THEN TarjanRun(g, next, TarjanEnter(g, st1, w))
                      ELSE TarjanRun(g, next, TarjanLower(st1, w))

\* Every node a component of its own.
TarjanSingletons(g) == [k \in 1..g.n |-> <<k>>]

TarjanScc(g) ==
    TarjanRun(g, 1, [root |-> [x \in 1..g.n |-> 0],
                     index |-> 1,
                     cc |-> 2 * g.n + 1,
                     stack |-> <<>>,
                     sccs |-> <<>>,
                     calls |-> <<>>]).sccs

\* node_to_scc: the index of the component that holds the node.
NodeToScc(ss, v) == CHOOSE k \in DOMAIN ss : v \in Range(ss[k])

\* The loop over graph.edge_indices(): update_edge adds the edge between two
\* different components once, however many edges of the graph cross.
RECURSIVE CondEdges(_, _, _)
CondEdges(ss, edges, acc) ==
    IF edges = <<>> THEN acc
    ELSE LET u_scc == NodeToScc(ss, Head(edges)[1])
             v_scc == NodeToScc(ss, Head(edges)[2])
         IN  CondEdges(ss, Tail(edges),
                 IF u_scc # v_scc /\ <<u_scc, v_scc>> \notin Range(acc)
                 THEN Append(acc, <<u_scc, v_scc>>)
                 ELSE acc)

Condense(g, ss) == [n |-> Len(ss), edges |-> CondEdges(ss, g.edges, <<>>)]

(***************************************************************************)
(* toposort(&cond_graph, None): petgraph's depth-first toposort.  The      *)
(* first phase finishes nodes with an explicit stack, starting from the    *)
(* highest index; the second phase walks the order on the reversed graph   *)
(* and fails when a node has a predecessor the order places after it.      *)
(***************************************************************************)
RECURSIVE TopoWhile(_, _)
TopoWhile(ce, st) ==
    IF st.stack = <<>> \/ st.cycle THEN st
    ELSE LET nx == st.stack[Len(st.stack)]
         IN  IF nx \notin st.discovered
             THEN LET succs == Neighbors(ce, nx)
                      d1 == st.discovered \cup {nx}
                  IN  IF nx \in Range(succs)
                      THEN [st EXCEPT !.cycle = TRUE]
                      ELSE TopoWhile(ce,
                             [st EXCEPT !.discovered = d1,
                                        !.stack = st.stack
                                           \o SelectSeq(succs, LAMBDA x : x \notin d1)])
             ELSE TopoWhile(ce,
                    [st EXCEPT !.stack = SubSeq(st.stack, 1, Len(st.stack) - 1),
                               !.finished = st.finished \cup {nx},
                               !.finish_stack =
                                   IF nx \in st.finished THEN st.finish_stack
                                   ELSE Append(st.finish_stack, nx)])

RECURSIVE TopoRoots(_, _, _)
TopoRoots(ce, i, st) ==
    IF i < 1 \/ st.cycle THEN st
    ELSE TopoRoots(ce, i - 1,
            IF i \in st.discovered THEN st
            ELSE TopoWhile(ce, [st EXCEPT !.stack = <<i>>]))

PosIn(s, x) == CHOOSE p \in DOMAIN s : s[p] = x

Toposort(cg) ==
    LET st == TopoRoots(cg.edges, cg.n,
                  [stack |-> <<>>, discovered |-> {}, finished |-> {},
                   finish_stack |-> <<>>, cycle |-> FALSE])
        sorted == Reverse(st.finish_stack)
    IN  IF st.cycle THEN [ok |-> FALSE, order |-> <<>>]
        ELSE IF \E e \in Range(cg.edges) : PosIn(sorted, e[1]) > PosIn(sorted, e[2])
        THEN [ok |-> FALSE, order |-> <<>>]
        ELSE [ok |-> TRUE, order |-> sorted]

(***************************************************************************)
(* Batch emission.                                                         *)
(***************************************************************************)
\* A variant of UnitIds that loses the last unit of a component of several.
UnitIdsShort(g, scc) ==
    IF Len(scc) > 1 THEN [k \in 1..(Len(scc) - 1) |-> g.label[scc[k]]]
    ELSE [k \in DOMAIN scc |-> g.label[scc[k]]]

\* scc.iter().map(|idx| graph[*idx].clone()).collect()
UnitIds(g, scc) == [k \in DOMAIN scc |-> g.label[scc[k]]]

\* A variant of Difficulty with the first threshold off by one.
DifficultyOffByOne(len, is_super_node) ==
    IF len >= 20 THEN Some("Very High")
    ELSE IF len > 10 THEN Some("High")
    ELSE IF len > 5 THEN Some("Medium")
    ELSE IF is_super_node THEN Some("Low")
    ELSE None

\* lines 145-155
Difficulty(len, is_super_node) ==
    IF len > 20 THEN Some("Very High")
    ELSE IF len > 10 THEN Some("High")
    ELSE IF len > 5 THEN Some("Medium")
    ELSE IF is_super_node THEN Some("Low")
    ELSE None

MakeBatch(g, scc) ==
    LET unit_ids == UnitIds(g, scc)
        is_super_node == Len(unit_ids) > 1
    IN  [units |-> unit_ids,
         is_super_node |-> is_super_node,
         scc_size |-> IF is_super_node THEN Some(Len(scc)) ELSE None,
         refactoring_difficulty |-> Difficulty(Len(unit_ids), is_super_node)]

\* order.reverse(), then one batch per component in that order.
EmitBatches(g, ss, order) ==
    LET rev == Reverse(order)
    IN  [k \in DOMAIN rev |-> MakeBatch(g, ss[rev[k]])]

(***************************************************************************)
(* Cycle analysis (lines 191-213, find_weak_edges and                      *)
(* generate_refactoring_suggestions).  A suggestion is a tuple of the      *)
(* message it is and the values formatted into it.                         *)
(***************************************************************************)
\* in_degree < 2 in the place of in_degree <= 2.
IsWeakStrict(in_degree) == in_degree < 2

\* line 241
IsWeak(in_degree) == in_degree <= 2

\* lines 236-239: the edges into target from the nodes of the component.
InDegreeWithin(g, scc, target) ==
    Cardinality({i \in DOMAIN g.edges :
                    g.edges[i][2] = target /\ g.edges[i][1] \in Range(scc)})

\* lines 232-245 for one node: graph.edges(node) goes over the node's outgoing
\* edges as graph.neighbors(node) does.
WeakEdgesFrom(g, scc, node) ==
    LET targets == SelectSeq(Neighbors(g.edges, node),
                             LAMBDA t : /\ t \in Range(scc)
                                        /\ IsWeak(InDegreeWithin(g, scc, t)))
    IN  [k \in DOMAIN targets |-> <<g.label[node], g.label[targets[k]]>>]

\* find_weak_edges: the nodes of the component from position i on.
RECURSIVE FindWeakEdgesFrom(_, _, _)
FindWeakEdgesFrom(g, scc, i) ==
    IF i > Len(scc) THEN <<>>
    ELSE WeakEdgesFrom(g, scc, scc[i]) \o FindWeakEdgesFrom(g, scc, i + 1)

FindWeakEdges(g, scc) == FindWeakEdgesFrom(g, scc, 1)

\* generate_refactoring_suggestions
GenerateRefactoringSuggestions(size, weak_edges) ==
    << <<"NOTE">> >>
    \o (IF size > 20 THEN << <<"CRITICAL">> >> ELSE <<>>)
    \o (IF weak_edges # <<>>
        THEN << <<"Consider breaking", Len(weak_edges)>> >>
             \o [k \in 1..(IF Len(weak_edges) < 3 THEN Len(weak_edges) ELSE 3) |->
                    <<"Extract interface", weak_edges[k][1], weak_edges[k][2]>>]
        ELSE <<>>)
    \o (IF size <= 5 THEN << <<"small cycle">> >> ELSE <<>>)

\* lines 197-198, 202-207: the analysis of one component of several nodes.
CycleAnalysis(g, scc) ==
    LET weak_edges == FindWeakEdges(g, scc)
    IN  [super_node |-> UnitIds(g, scc),
         size |-> Len(scc),
         weak_edges |-> weak_edges,
         refactoring_suggestions |-> GenerateRefactoringSuggestions(Len(scc), weak_edges)]

\* lines 195-209: one analysis per component of more than one node.
AnalyzeCycles(g, ss) ==
    LET big == SelectSeq(ss, LAMBDA scc : Len(scc) > 1)
    IN  [k \in DOMAIN big |-> CycleAnalysis(g, big[k])]

\* lines 71-163 as one function: the batches main emits for the units.
BuildOrder(us) ==
    LET g == BuildGraph(us)
        ss == TarjanScc(g)
        t == Toposort(Condense(g, ss))
    IN  EmitBatches(g, ss, t.order)

(***************************************************************************)
(* The inputs of the mapper.                                               *)
(***************************************************************************)
\* The names a dependency entry can hold: the ids of the input and 0, a name
\* that is no unit's id (every such name is the same None of nodes.get).
Names(ids) == 0..MaxOf({0} \cup Range(ids))

\* Ids are opaque to the mapper, so a small input names its ids in the order
\* of their first occurrence: 1, then 2, ...; ids may repeat.
Canonical(ids) ==
    \A i \in DOMAIN ids :
        ids[i] <= 1 + MaxOf({0} \cup {ids[j] : j \in 1..(i - 1)})

IdSeqs(n) == {ids \in [1..n -> 1..MaxUnits] : Canonical(ids)}

\* The dependency entries of an input, as (unit index, name) pairs grouped by
\* unit: at most MaxEdges of them.
EdgeLists(n, names) ==
    UNION {{e \in [1..k -> (1..n) \X names] :
               \A i \in 1..(k - 1) : e[i][1] <= e[i + 1][1]} : k \in 0..MaxEdges}

DepsOf(e, i) ==
    LET mine == SelectSeq(e, LAMBDA p : p[1] = i)
    IN  [k \in DOMAIN mine |-> mine[k][2]]

\* A small input: its ids and its dependency entries.
SmallInput(ids, e) ==
    [i \in DOMAIN ids |-> [id |-> ids[i], dependencies |-> DepsOf(e, i)]]

\* n units around a hub: unit 1 calls each of the others and each of them
\* calls unit 1.
HubInput(n) ==
    [i \in 1..n |->
        [id |-> i,
         dependencies |-> IF i = 1 THEN [k \in 1..(n - 1) |-> k + 1] ELSE <<1>>]]

\* n units that call each other in a ring: one component of n units.
RingInput(n) == [i \in 1..n |-> [id |-> i, dependencies |-> <<(i % n) + 1>>]]

(***************************************************************************)
(* SLICER.  A text is a sequence of characters; the registry looks at a    *)
(* definition only through contains('{') and len().  A function's subtree  *)
(* is the sequence of its nodes in the order extract_info_safe visits      *)
(* them, each [kind, text]: for a call_expression the text of its function *)
(* field, for a type_identifier its own text.  Nodes of other kinds change *)
(* nothing and are left out.  The registry's type_sources, includes and    *)
(* macros are written in pass 1 and never read; they are left out too.     *)
(***************************************************************************)
TypeNames == {"S", "T"}
Callees == {"f", "g"}

\* Sample definition texts: forward declarations of 1 and 3 characters, full
\* definitions of 2 and 3 characters.
DefTexts == {<<"s">>, <<"s", "s", "s">>, <<"s", "{">>, <<"s", "{", "s">>}

\* definition.contains('{')
HasBody(text) == \E i \in DOMAIN text : text[i] = "{"

EmptyRegistry == [types |-> [n \in TypeNames |-> None]]

\* lines 42-51
ShouldInsert(reg, name, definition) ==
    IF reg.types[name] = None THEN TRUE
    ELSE LET existing == reg.types[name][1]
             new_has_body == HasBody(definition)
             old_has_body == HasBody(existing)
         IN  \/ (new_has_body /\ ~old_has_body)
             \/ (~old_has_body /\ Len(definition) > Len(existing))

\* TypeRegistry::register_type
RegisterType(reg, name, definition) ==
    IF ShouldInsert(reg, name, definition)
    THEN [reg EXCEPT !.types[name] = Some(definition)]
    ELSE reg

\* TypeRegistry::get_type
GetType(reg, name) == reg.types[name]

\* The loop of collect_types_from_file over the captures of one file, each
\* [name, def].
RECURSIVE RegisterAll(_, _)
RegisterAll(reg, captures) ==
    IF captures = <<>> THEN reg
    ELSE RegisterAll(RegisterType(reg, Head(captures).name, Head(captures).def),
                     Tail(captures))

\* A push without the contains test.
PushAlways(v, x) == Append(v, x)

\* Vec::contains, then push
PushNew(v, x) == IF x \in Range(v) THEN v ELSE Append(v, x)

\* extract_info_safe over the nodes of a function: [deps, types].
RECURSIVE ExtractInfo(_, _, _)
ExtractInfo(nodes, deps, types) ==
    IF nodes = <<>> THEN [deps |-> deps, types |-> types]
    ELSE LET node == Head(nodes)
         IN  IF node.kind = "call_expression"
             THEN ExtractInfo(Tail(nodes), PushNew(deps, node.text), types)
             ELSE IF node.kind = "type_identifier"
             THEN ExtractInfo(Tail(nodes), deps, PushNew(types, node.text))
             ELSE ExtractInfo(Tail(nodes), deps, types)

\* A variant of RequiredHeaders that stops at the first type name the registry
\* does not know.
RECURSIVE RequiredHeadersStop(_, _, _)
RequiredHeadersStop(reg, used_types, required_headers) ==
    IF used_types = <<>> THEN required_headers
    ELSE LET def == GetType(reg, Head(used_types))
         IN  IF def = None THEN required_headers
             ELSE RequiredHeadersStop(reg, Tail(used_types),
                                      PushNew(required_headers, def[1]))

\* lines 297-304
RECURSIVE RequiredHeaders(_, _, _)
RequiredHeaders(reg, used_types, required_headers) ==
    IF used_types = <<>> THEN required_headers
    ELSE LET def == GetType(reg, Head(used_types))
         IN  RequiredHeaders(reg, Tail(used_types),
                 IF def = None THEN required_headers
                 ELSE PushNew(required_headers, def[1]))

\* lines 281-311: the unit of one function definition.  code is the text of
\* the function, here its nodes.
MakeUnit(reg, func) ==
    LET info == ExtractInfo(func.nodes, <<>>, <<>>)
    IN  [id |-> IF func.name = None THEN "unknown_fn" ELSE func.name[1],
         code |-> func.nodes,
         dependencies |-> info.deps,
         required_headers |-> RequiredHeaders(reg, info.types, <<>>)]

\* The inputs: the captures of pass 1 and the functions of pass 2.
Captures == [name : TypeNames, def : DefTexts]

CaptureSeqs == UNION {[1..k -> Captures] : k \in 0..MaxTypes}

Nodes ==
    [kind : {"call_expression"}, text : Callees]
        \cup [kind : {"type_identifier"}, text : TypeNames]

Functions ==
    UNION {[name : {Some("fn")}, nodes : [1..k -> Nodes]] : k \in 0..MaxNodes}

FunctionSeqs(room) == UNION {[1..k -> Functions] : k \in 0..room}

(***************************************************************************)
(* CONDUCTOR.  The tasks table is a set of rows, so that one row per id is *)
(* a consequence of create_task and not of the representation.  A text     *)
(* (code, error message) is a tuple that names what it is and the unit it  *)
(* is about; a nullable column holds None or Some(text).                   *)
(***************************************************************************)
Ids == {"a", "b"}

\* What LlmClient::transpile returns for a unit, and the two error texts.
RustCode(id) == <<"rust", id>>
TranspileError(id) == <<"transpile error", id>>
VerifyError(id) == <<"rustc stderr", id>>

Row(id, atomic_unit_id, state, code, error) ==
    [id |-> id, atomic_unit_id |-> atomic_unit_id, state |-> state,
     code_rust |-> code, error_log |-> error]

HasRow(T, id) == \E r \in T : r.id = id

\* INSERT OR REPLACE in the place of INSERT OR IGNORE.
CreateTaskReplace(T, id, atomic_unit_id) ==
    {r \in T : r.id # id} \cup {Row(id, atomic_unit_id, "PENDING", None, None)}

\* db.rs 58-70: INSERT OR IGNORE INTO tasks (id, atomic_unit_id, state).
CreateTask(T, id, atomic_unit_id) ==
    IF HasRow(T, id)
    THEN T
    ELSE T \cup {Row(id, atomic_unit_id, "PENDING", None, None)}

\* db.rs 72-85: UPDATE tasks SET state, code_rust, error_log WHERE id.
UpdateTaskState(T, id, state, code, error) ==
    {IF r.id = id
     THEN [r EXCEPT !.state = state, !.code_rust = code, !.error_log = error]
     ELSE r : r \in T}

\* db.rs 87-110: SELECT state FROM tasks WHERE id.
GetTaskState(T, id) ==
    IF HasRow(T, id) THEN Some((CHOOSE r \in T : r.id = id).state) ELSE None

\* A process_unit future: the unit, the batch it was pushed for, its position
\* and the results of transpile, of verify and of process_unit itself.
NewFuture(id, b) ==
    [unit |-> id, batch |-> b, pc |-> "created",
     tr |-> "none", vr |-> "none", res |-> "none"]

\* The update of a failed verification without the candidate code.
WriteArgsDropCode(f) ==
    IF f.tr = "ok"
    THEN IF f.vr = "ok"
         THEN [state |-> "COMPLETED", code |-> Some(RustCode(f.unit)), error |-> None]
         ELSE [state |-> "FAILED", code |-> None, error |-> Some(VerifyError(f.unit))]
    ELSE [state |-> "FAILED", code |-> None, error |-> Some(TranspileError(f.unit))]

\* main.rs 109-131: the arguments of process_unit's update_task_state.
WriteArgs(f) ==
    IF f.tr = "ok"
    THEN IF f.vr = "ok"
         THEN [state |-> "COMPLETED", code |-> Some(RustCode(f.unit)), error |-> None]
         ELSE [state |-> "FAILED", code |-> Some(RustCode(f.unit)),
               error |-> Some(VerifyError(f.unit))]
    ELSE [state |-> "FAILED", code |-> None, error |-> Some(TranspileError(f.unit))]

\* The main loop goes on without awaiting the futures.
JoinNoWait(fs, b) == TRUE

\* A join_all that never returns.
JoinNever(fs, b) == FALSE

\* main.rs 92: join_all returns when every future of the batch has returned.
JoinReady(fs, b) == \A k \in DOMAIN fs : fs[k].batch = b => fs[k].pc = "done"

\* Verifier::verify is a synchronous call (verifier.rs 9-33) made from the poll
\* of a future, and join_all polls the futures of a batch from the one task of
\* main: while a future is in verify, no other future of the batch is polled.
InVerify(fs) == \E k \in DOMAIN fs : fs[k].pc = "verify"

\* The batches of a build_order.json: sequences of distinct ids.
BatchSeqs ==
    UNION {{s \in [1..k -> Ids] : \A p, q \in 1..k : s[p] = s[q] => p = q} :
           k \in 0..Cardinality(Ids)}

\* The build orders of n batches: as in the mapper's output for units of
\* distinct ids, no id is in two batches.
BuildOrders(n) ==
    {bo \in [1..n -> BatchSeqs] :
        \A p, q \in 1..n : p # q => Range(bo[p]) \cap Range(bo[q]) = {}}

ConductorIdle ==
    /\ cd_pc = "idle"
    /\ cd_run = 0
    /\ build_order = <<>>
    /\ units_map = {}
    /\ batch_i = 0
    /\ unit_pos = 0
    /\ futures = <<>>
    /\ tasks = {}

(***************************************************************************)
(* The registry alone: any sequence of register_type calls.                *)
(***************************************************************************)
NoGraph == [n |-> 0, label |-> <<>>, edges |-> <<>>]
NoCond == [n |-> 0, edges |-> <<>>]

MapperIdle ==
    /\ mp_pc = "idle"
    /\ units = <<>>
    /\ graph = NoGraph
    /\ sccs = <<>>
    /\ cond_graph = NoCond
    /\ batches = <<>>
    /\ analyses = <<>>

SlicerIdle ==
    /\ sl_pc = "idle"
    /\ sl_nfiles = 0
    /\ sl_file = 0
    /\ type_registry = EmptyRegistry
    /\ reg_log = <<>>
    /\ out_units = <<>>

InitRegistry ==
    /\ MapperIdle
    /\ ConductorIdle
    /\ sl_pc = "idle"
    /\ sl_nfiles = 0
    /\ sl_file = 0
    /\ type_registry = EmptyRegistry
    /\ reg_log = <<>>
    /\ out_units = <<>>

RegisterTypeCall ==
    /\ Len(reg_log) < MaxRegs
    /\ \E c \in Captures :
          /\ type_registry' = RegisterType(type_registry, c.name, c.def)
          /\ reg_log' = Append(reg_log, c)

(***************************************************************************)
(* The slicer's main: pass 1 over every file, then pass 2 over every file. *)
(***************************************************************************)
InitSlicer ==
    /\ MapperIdle
    /\ ConductorIdle
    /\ sl_pc = "pass1"
    /\ sl_nfiles \in 0..MaxFiles
    /\ sl_file = 1
    /\ type_registry = EmptyRegistry
    /\ reg_log = <<>>
    /\ out_units = <<>>

\* line 93 finds no (further) file: pass 2 starts.
SlicerStartPass2 ==
    /\ sl_pc = "pass1"
    /\ sl_file > sl_nfiles
    /\ sl_pc' = "pass2"
    /\ sl_file' = 1
    /\ UNCHANGED <<sl_nfiles, type_registry, reg_log, out_units>>

\* collect_types_from_file of the next file; a file that does not parse has no
\* captures.
SlicerCollectTypes ==
    /\ sl_pc = "pass1"
    /\ sl_file <= sl_nfiles
    /\ \E captures \in CaptureSeqs :
          type_registry' = RegisterAll(type_registry, captures)
    /\ sl_file' = sl_file + 1
    /\ UNCHANGED <<sl_pc, sl_nfiles, reg_log, out_units>>

\* extract_functions_from_file of the next file.
SlicerExtractFunctions ==
    /\ sl_pc = "pass2"
    /\ sl_file <= sl_nfiles
    /\ \E funcs \in FunctionSeqs(MaxFuncs - Len(out_units)) :
          out_units' = out_units \o [k \in DOMAIN funcs |-> MakeUnit(type_registry, funcs[k])]
    /\ sl_file' = sl_file + 1
    /\ UNCHANGED <<sl_pc, sl_nfiles, type_registry, reg_log>>

\* lines 105-106: units.json is written.
SlicerWrite ==
    /\ sl_pc = "pass2"
    /\ sl_file > sl_nfiles
    /\ sl_pc' = "written"
    /\ UNCHANGED <<sl_nfiles, sl_file, type_registry, reg_log, out_units>>

\* A file cannot be read: the `?` of line 94 or 102 ends main with the error,
\* and the registry and the units are dropped with it.
SlicerReadError ==
    /\ sl_pc \in {"pass1", "pass2"}
    /\ sl_file <= sl_nfiles
    /\ sl_pc' = "failed"
    /\ type_registry' = EmptyRegistry
    /\ out_units' = <<>>
    /\ UNCHANGED <<sl_nfiles, sl_file, reg_log>>

(***************************************************************************)
(* The mapper's main, in three steps.                                      *)
(***************************************************************************)
InitMapper ==
    /\ mp_pc = "loaded"
    /\ \/ \E n \in 0..MaxUnits : \E ids \in IdSeqs(n) :
          \E e \in EdgeLists(n, Names(ids)) :
              units = SmallInput(ids, e)
       \/ \E n \in 1..MaxRing : units = RingInput(n)
       \/ \E n \in 1..MaxHub : units = HubInput(n)
    /\ graph = NoGraph
    /\ sccs = <<>>
    /\ cond_graph = NoCond
    /\ batches = <<>>
    /\ analyses = <<>>
    /\ SlicerIdle
    /\ ConductorIdle

\* lines 71-90: nodes and edges.
MapperBuildGraph ==
    /\ mp_pc = "loaded"
    /\ graph' = BuildGraph(units)
    /\ mp_pc' = "graph"
    /\ UNCHANGED <<units, sccs, cond_graph, batches, analyses>>

\* lines 93-122: components and the condensed graph.
MapperCondense ==
    /\ mp_pc = "graph"
    /\ sccs' = TarjanScc(graph)
    /\ cond_graph' = Condense(graph, sccs')
    /\ mp_pc' = "condensed"
    /\ UNCHANGED <<units, graph, batches, analyses>>

\* lines 125-186: the order and the batches, or the error of line 126.
MapperEmit ==
    /\ mp_pc = "condensed"
    /\ LET t == Toposort(cond_graph)
       IN  IF t.ok
           THEN /\ batches' = EmitBatches(graph, sccs, t.order)
                /\ mp_pc' = "written"
           ELSE /\ batches' = batches
                /\ mp_pc' = "cycle_error"
    /\ UNCHANGED <<units, graph, sccs, cond_graph, analyses>>

\* lines 191-213, with --analyze-cycles: cycle_analysis.json is written.
MapperAnalyzeCycles ==
    /\ mp_pc = "written"
    /\ analyses' = AnalyzeCycles(graph, sccs)
    /\ mp_pc' = "analyzed"
    /\ UNCHANGED <<units, graph, sccs, cond_graph, batches>>

NextMapper ==
    \/ MapperBuildGraph /\ UNCHANGED <<slicerVars, conductorVars>>
    \/ MapperCondense /\ UNCHANGED <<slicerVars, conductorVars>>
    \/ MapperEmit /\ UNCHANGED <<slicerVars, conductorVars>>
    \/ MapperAnalyzeCycles /\ UNCHANGED <<slicerVars, conductorVars>>

SpecMapper == InitMapper /\ [][NextMapper]_vars

NextRegistry ==
    RegisterTypeCall
        /\ UNCHANGED <<sl_pc, sl_nfiles, sl_file, out_units>>
        /\ UNCHANGED <<mapperVars, conductorVars>>

SpecRegistry == InitRegistry /\ [][NextRegistry]_vars

NextSlicer ==
    \/ SlicerCollectTypes /\ UNCHANGED <<mapperVars, conductorVars>>
    \/ SlicerStartPass2 /\ UNCHANGED <<mapperVars, conductorVars>>
    \/ SlicerExtractFunctions /\ UNCHANGED <<mapperVars, conductorVars>>
    \/ SlicerWrite /\ UNCHANGED <<mapperVars, conductorVars>>
    \/ SlicerReadError /\ UNCHANGED <<mapperVars, conductorVars>>

SpecSlicer == InitSlicer /\ [][NextSlicer]_vars

(***************************************************************************)
(* The conductor's main after startup (main.rs 74-102) and process_unit    *)
(* (main.rs 105-133).  A future pushed at line 85 does nothing before      *)
(* join_all polls it at line 92.  Every statement of the store can fail.   *)
(***************************************************************************)
InitConductor ==
    /\ MapperIdle
    /\ SlicerIdle
    /\ cd_pc = "dispatch"
    /\ cd_run = 1
    /\ \E n \in 0..MaxBatches : build_order \in BuildOrders(n)
    /\ units_map \in SUBSET Ids
    /\ batch_i = 1
    /\ unit_pos = 1
    /\ futures = <<>>
    /\ tasks = {}

\* The inner loop (line 78) is at a unit of the batch.
AtUnit ==
    /\ cd_pc = "dispatch"
    /\ batch_i <= Len(build_order)
    /\ unit_pos <= Len(build_order[batch_i])

CurrentUnit == build_order[batch_i][unit_pos]

\* lines 79-81: create_task returns Ok.
ConductorCreateTask ==
    /\ AtUnit
    /\ CurrentUnit \in units_map
    /\ tasks' = CreateTask(tasks, CurrentUnit, CurrentUnit)
    /\ cd_pc' = "mark"
    /\ UNCHANGED <<cd_run, build_order, units_map, batch_i, unit_pos, futures>>

\* line 81: create_task returns an error and `?` returns it from main.
ConductorCreateTaskError ==
    /\ AtUnit
    /\ CurrentUnit \in units_map
    /\ cd_pc' = "aborted"
    /\ UNCHANGED <<cd_run, build_order, units_map, batch_i, unit_pos, futures, tasks>>

\* lines 82-85: update_task_state(InProgress, None, None) returns Ok, and the
\* unit's future is pushed.
ConductorMarkInProgress ==
    /\ cd_pc = "mark"
    /\ tasks' = UpdateTaskState(tasks, CurrentUnit, "IN_PROGRESS", None, None)
    /\ futures' = Append(futures, NewFuture(CurrentUnit, batch_i))
    /\ unit_pos' = unit_pos + 1
    /\ cd_pc' = "dispatch"
    /\ UNCHANGED <<cd_run, build_order, units_map, batch_i>>

\* line 82: update_task_state returns an error and `?` returns it from main.
ConductorMarkInProgressError ==
    /\ cd_pc = "mark"
    /\ cd_pc' = "aborted"
    /\ UNCHANGED <<cd_run, build_order, units_map, batch_i, unit_pos, futures, tasks>>

\* lines 86-88: the unit is not in units.json; a warning, and the next unit.
ConductorSkipUnit ==
    /\ AtUnit
    /\ CurrentUnit \notin units_map
    /\ unit_pos' = unit_pos + 1
    /\ UNCHANGED <<cd_pc, cd_run, build_order, units_map, batch_i, futures, tasks>>

\* line 92: the inner loop is over; main awaits join_all.
ConductorAwaitJoin ==
    /\ cd_pc = "dispatch"
    /\ batch_i <= Len(build_order)
    /\ unit_pos > Len(build_order[batch_i])
    /\ cd_pc' = "join"
    /\ UNCHANGED <<cd_run, build_order, units_map, batch_i, unit_pos, futures, tasks>>

\* lines 106-109: the future is polled and transpile returns.
ProcessTranspile(k) ==
    /\ cd_pc = "join"
    /\ futures[k].batch = batch_i
    /\ futures[k].pc = "created"
    /\ ~InVerify(futures)
    /\ \/ futures' = [futures EXCEPT ![k].tr = "ok", ![k].pc = "verify"]
       \/ futures' = [futures EXCEPT ![k].tr = "err", ![k].pc = "write"]
    /\ UNCHANGED <<cd_pc, cd_run, build_order, units_map, batch_i, unit_pos, tasks>>

\* line 114: Verifier::verify returns.
ProcessVerify(k) ==
    /\ cd_pc = "join"
    /\ futures[k].batch = batch_i
    /\ futures[k].pc = "verify"
    /\ \E r \in {"ok", "err"} :
          futures' = [futures EXCEPT ![k].vr = r, ![k].pc = "write"]
    /\ UNCHANGED <<cd_pc, cd_run, build_order, units_map, batch_i, unit_pos, tasks>>

\* lines 117, 122, 129 and 132: update_task_state returns Ok, and the return.
\* The statement was handed to the pool in the poll that reached it and runs
\* on the pool's side, also while the polling thread is in a verify; the return
\* of process_unit, which only join_all observes, is taken together with it.
ProcessWrite(k) ==
    /\ cd_pc = "join"
    /\ futures[k].batch = batch_i
    /\ futures[k].pc = "write"
    /\ LET a == WriteArgs(futures[k])
       IN  tasks' = UpdateTaskState(tasks, futures[k].unit, a.state, a.code, a.error)
    /\ futures' = [futures EXCEPT ![k].res = "ok", ![k].pc = "done"]
    /\ UNCHANGED <<cd_pc, cd_run, build_order, units_map, batch_i, unit_pos>>

\* lines 117, 122, 129: update_task_state returns an error and `?` returns it
\* from process_unit.
ProcessWriteError(k) ==
    /\ cd_pc = "join"
    /\ futures[k].batch = batch_i
    /\ futures[k].pc = "write"
    /\ futures' = [futures EXCEPT ![k].res = "err", ![k].pc = "done"]
    /\ UNCHANGED <<cd_pc, cd_run, build_order, units_map, batch_i, unit_pos, tasks>>

\* lines 92-98: join_all returns, the errors are printed, the next batch.
ConductorJoinAll ==
    /\ cd_pc = "join"
    /\ JoinReady(futures, batch_i)
    /\ batch_i' = batch_i + 1
    /\ unit_pos' = 1
    /\ cd_pc' = "dispatch"
    /\ UNCHANGED <<cd_run, build_order, units_map, futures, tasks>>

\* lines 100-102: no batch is left.
ConductorFinish ==
    /\ cd_pc = "dispatch"
    /\ batch_i > Len(build_order)
    /\ cd_pc' = "done"
    /\ UNCHANGED <<cd_run, build_order, units_map, batch_i, unit_pos, futures, tasks>>

\* The conductor is run again over the same files; blackboard.db is as the
\* run before left it (lines 43-72).
ConductorRestart ==
    /\ cd_pc \in {"done", "aborted"}
    /\ cd_run < MaxRuns
    /\ cd_run' = cd_run + 1
    /\ cd_pc' = "dispatch"
    /\ batch_i' = 1
    /\ unit_pos' = 1
    /\ futures' = <<>>
    /\ UNCHANGED <<build_order, units_map, tasks>>

\* A step of a run in which no statement of the store fails.
RunStep ==
    \/ ConductorCreateTask /\ UNCHANGED <<mapperVars, slicerVars>>
    \/ ConductorMarkInProgress /\ UNCHANGED <<mapperVars, slicerVars>>
    \/ ConductorSkipUnit /\ UNCHANGED <<mapperVars, slicerVars>>
    \/ ConductorAwaitJoin /\ UNCHANGED <<mapperVars, slicerVars>>
    \/ \E k \in DOMAIN futures : ProcessTranspile(k) /\ UNCHANGED <<mapperVars, slicerVars>>
    \/ \E k \in DOMAIN futures : ProcessVerify(k) /\ UNCHANGED <<mapperVars, slicerVars>>
    \/ \E k \in DOMAIN futures : ProcessWrite(k) /\ UNCHANGED <<mapperVars, slicerVars>>
    \/ ConductorJoinAll /\ UNCHANGED <<mapperVars, slicerVars>>
    \/ ConductorFinish /\ UNCHANGED <<mapperVars, slicerVars>>

NextConductor ==
    \/ ConductorCreateTask /\ UNCHANGED <<mapperVars, slicerVars>>
    \/ ConductorCreateTaskError /\ UNCHANGED <<mapperVars, slicerVars>>
    \/ ConductorMarkInProgress /\ UNCHANGED <<mapperVars, slicerVars>>
    \/ ConductorMarkInProgressError /\ UNCHANGED <<mapperVars, slicerVars>>
    \/ ConductorSkipUnit /\ UNCHANGED <<mapperVars, slicerVars>>
    \/ ConductorAwaitJoin /\ UNCHANGED <<mapperVars, slicerVars>>
    \/ \E k \in DOMAIN futures : ProcessTranspile(k) /\ UNCHANGED <<mapperVars, slicerVars>>
    \/ \E k \in DOMAIN futures : ProcessVerify(k) /\ UNCHANGED <<mapperVars, slicerVars>>
    \/ \E k \in DOMAIN futures : ProcessWrite(k) /\ UNCHANGED <<mapperVars, slicerVars>>
    \/ \E k \in DOMAIN futures : ProcessWriteError(k) /\ UNCHANGED <<mapperVars, slicerVars>>
    \/ ConductorJoinAll /\ UNCHANGED <<mapperVars, slicerVars>>
    \/ ConductorFinish /\ UNCHANGED <<mapperVars, slicerVars>>
    \/ ConductorRestart /\ UNCHANGED <<mapperVars, slicerVars>>

SpecConductor == InitConductor /\ [][NextConductor]_vars

\* The runs in which every store write succeeds, every oracle call and every
\* verification returns, and the executor goes on polling what can go on: a
\* step of the run is taken as long as one is possible.
NextConductorLive ==
    \/ RunStep
    \/ ConductorRestart /\ UNCHANGED <<mapperVars, slicerVars>>

SpecConductorLive ==
    InitConductor /\ [][NextConductorLive]_vars /\ WF_vars(RunStep)

(***************************************************************************)
(* Properties of the mapper.                                               *)
(***************************************************************************)
\* The batches that hold the id, and how often the id occurs in the batches.
BatchesOf(id) == {i \in DOMAIN batches : id \in Range(batches[i].units)}

Occurrences(id) ==
    Cardinality(UNION {{<<i, k>> : k \in {k \in DOMAIN batches[i].units :
                                              batches[i].units[k] = id}} :
                          i \in DOMAIN batches})

InputIds == {units[k].id : k \in DOMAIN units}

\* C1 (mapper ordering), as claimed, for any input list: whenever a unit's id
\* is in batch i, each of its dependencies that is a unit id of the input is in
\* batch i or in an earlier batch.
C1_MapperOrdering ==
    mp_pc = "written" =>
        \A k \in DOMAIN units : \A i \in BatchesOf(units[k].id) :
            \A v \in Range(units[k].dependencies) :
                v \in InputIds => \E j \in BatchesOf(v) : j <= i

\* C2 (mapper coverage): every id occurs in the emitted batches exactly as
\* often as it is the id of a unit of the input.
C2_MapperCoverage ==
    mp_pc = "written" =>
        \A id \in InputIds \cup UNION {Range(batches[i].units) : i \in DOMAIN batches} :
            Occurrences(id) = Cardinality({k \in DOMAIN units : units[k].id = id})

\* C2's case: an input in which an id repeats, and a component of two units.
C2_Witness ==
    /\ mp_pc = "written"
    /\ \E k, l \in DOMAIN units : k # l /\ units[k].id = units[l].id
    /\ \E i \in DOMAIN batches : Len(batches[i].units) = 2
    /\ Len(batches) = 2

\* C8 (super-node marking): is_super_node iff the batch has several units,
\* scc_size is there iff it is a super-node and is the number of units, and the
\* difficulty tag follows the sizes 1, 2-5, 6-10, 11-20 and above.
C8_SuperNodeMarking ==
    \A i \in DOMAIN batches :
        LET b == batches[i]
            n == Len(b.units)
        IN  /\ b.is_super_node = (n > 1)
            /\ (b.scc_size # None) = b.is_super_node
            /\ b.is_super_node => b.scc_size = Some(n)
            /\ n <= 1 => b.refactoring_difficulty = None
            /\ n \in 2..5 => b.refactoring_difficulty = Some("Low")
            /\ n \in 6..10 => b.refactoring_difficulty = Some("Medium")
            /\ n \in 11..20 => b.refactoring_difficulty = Some("High")
            /\ n > 20 => b.refactoring_difficulty = Some("Very High")

\* C8's case: a batch of 21 units has been emitted and tagged.
C8_Witness ==
    /\ mp_pc = "written"
    /\ \E i \in DOMAIN batches :
          /\ Len(batches[i].units) = 21
          /\ batches[i].refactoring_difficulty = Some("Very High")
          /\ batches[i].scc_size = Some(21)

\* The nodes that have an edge from a node of S.
Successors(g, S) == {e[2] : e \in {e \in Range(g.edges) : e[1] \in S}}

\* S with every node that a path from a node of S leads to.
RECURSIVE Closure(_, _)
Closure(g, S) ==
    IF Successors(g, S) \subseteq S THEN S ELSE Closure(g, S \cup Successors(g, S))

\* The nodes that a path of one edge or more leads to from v.
Descendants(g, v) == Closure(g, Successors(g, {v}))

\* The strongly connected components of the graph, from its paths.
ComponentsOf(g) ==
    {{w \in 1..g.n : w = v \/ (w \in Descendants(g, v) /\ v \in Descendants(g, w))} :
        v \in 1..g.n}

\* C12 (one batch per component): main never ends with "Cycle detected in
\* condensed graph"; when the components and the condensed graph are built, the
\* components tarjan_scc returned are the strongly connected components of the
\* dependency graph and the condensed graph has no cycle (no node of it has a
\* path to itself); and as many batches are emitted as there are components.
C12_OneBatchPerScc ==
    /\ mp_pc # "cycle_error"
    /\ mp_pc = "condensed" =>
          /\ {Range(sccs[k]) : k \in DOMAIN sccs} = ComponentsOf(graph)
          /\ Len(sccs) = Cardinality(ComponentsOf(graph))
          /\ \A v \in 1..cond_graph.n : v \notin Descendants(cond_graph, v)
    /\ mp_pc \in {"written", "analyzed"} => Len(batches) = Len(sccs)

\* C12's case: a unit that calls itself and two units that call each other, in
\* two batches.
C12_Witness ==
    /\ mp_pc = "written"
    /\ Len(units) = 3
    /\ Cardinality(InputIds) = 3
    /\ \E k \in DOMAIN units : units[k].id \in Range(units[k].dependencies)
    /\ Len(batches) = 2
    /\ \E i \in DOMAIN batches : batches[i].is_super_node

\* The input without the dependency entries that name no unit of the input.
WithoutUnknown(us) ==
    [i \in DOMAIN us |->
        [id |-> us[i].id,
         dependencies |->
             SelectSeq(us[i].dependencies,
                       LAMBDA d : d \in {us[k].id : k \in DOMAIN us})]]

\* C14 (unknown dependencies are dropped): the graph main builds has one vertex
\* per unit and is the graph of the input without its unknown dependency entries, main
\* does not fail, and the batches are those of the input without them; a lone
\* unit with only unknown dependencies gives the one batch that holds it, not a
\* super-node.
C14_UnknownDepsDropped ==
    /\ mp_pc = "graph" =>
          /\ graph.n = Len(units)
          /\ graph = BuildGraph(WithoutUnknown(units))
    /\ mp_pc = "written" =>
          /\ batches = BuildOrder(WithoutUnknown(units))
          /\ (Len(units) = 1 /\ WithoutUnknown(units)[1].dependencies = <<>>) =>
                batches = <<[units |-> <<units[1].id>>, is_super_node |-> FALSE,
                             scc_size |-> None, refactoring_difficulty |-> None]>>
    /\ (units # WithoutUnknown(units)) => mp_pc # "cycle_error"

\* C14's case: two units, the first calls an unknown name and then the second;
\* two batches, the second unit first.
C14_Witness ==
    /\ mp_pc = "written"
    /\ Len(units) = 2
    /\ units[1].dependencies = <<0, units[2].id>>
    /\ units[1].id # units[2].id
    /\ units[2].dependencies = <<>>
    /\ Len(batches) = 2
    /\ batches[1].units = <<units[2].id>>
    /\ batches[2].units = <<units[1].id>>

\* The positions of the graph's edges that lie within the component and whose
\* target has at most two edges entering it from nodes of the component.
WeakEdgePositions(scc) ==
    LET within == {i \in DOMAIN graph.edges :
                      graph.edges[i][1] \in Range(scc) /\ graph.edges[i][2] \in Range(scc)}
    IN  {i \in within :
            Cardinality({j \in within : graph.edges[j][2] = graph.edges[i][2]}) <= 2}

\* C15 (weak-edge heuristic): the analysis has one entry per component of more
\* than one node, and the weak_edges of an entry are exactly the edges within
\* the component whose target has at most two edges entering it from the
\* component, each as often as the graph holds it, named by the ids of its two
\* nodes; an edge with an end outside the component is not among them.
C15_WeakEdges ==
    mp_pc = "analyzed" =>
        LET big == SelectSeq(sccs, LAMBDA scc : Len(scc) > 1)
        IN  /\ Len(analyses) = Len(big)
            /\ \A k \in DOMAIN big :
                  LET weak == analyses[k].weak_edges
                      expected == WeakEdgePositions(big[k])
                  IN  /\ Len(weak) = Cardinality(expected)
                      /\ \A p \in Range(weak) \cup
                                  {<<graph.label[graph.edges[i][1]],
                                     graph.label[graph.edges[i][2]]>> : i \in expected} :
                            Cardinality({x \in DOMAIN weak : weak[x] = p}) =
                            Cardinality({i \in expected :
                                            /\ graph.label[graph.edges[i][1]] = p[1]
                                            /\ graph.label[graph.edges[i][2]] = p[2]})

\* C15's case: a hub of four units; the three edges from the hub are weak, the
\* three edges into the hub are not.
C15_Witness ==
    /\ mp_pc = "analyzed"
    /\ units = HubInput(4)
    /\ Len(analyses) = 1
    /\ analyses[1].size = 4
    /\ Range(analyses[1].weak_edges) = {<<1, 2>>, <<1, 3>>, <<1, 4>>}

(***************************************************************************)
(* Properties of the slicer.                                               *)
(***************************************************************************)
\* The definitions registered so far under the name.
RegisteredDefs(name) ==
    {reg_log[i].def : i \in {i \in DOMAIN reg_log : reg_log[i].name = name}}

\* C9 (type-registry tie-break), as claimed: after any sequence of
\* register_type calls the stored definition of a name is one of those
\* registered, has a body whenever one of them has, and is then the longest of
\* those with a body.
C9_RegistryTieBreak ==
    \A name \in TypeNames :
        LET defs == RegisteredDefs(name)
            stored == GetType(type_registry, name)
        IN  defs # {} =>
              /\ stored # None
              /\ stored[1] \in defs
              /\ (\E d \in defs : HasBody(d)) =>
                    /\ HasBody(stored[1])
                    /\ \A d \in defs : HasBody(d) => Len(d) <= Len(stored[1])

\* The type names a unit's function uses: its type_identifier nodes.
UsedTypeNames(unit) ==
    {unit.code[i].text : i \in {i \in DOMAIN unit.code :
                                    unit.code[i].kind = "type_identifier"}}

\* C10 (slicer closure): for every emitted unit, the registry's definition of
\* every type name the function uses is among required_headers, and a name
\* without a registry entry adds nothing: every header is the definition of a
\* type name the function uses.
C10_SlicerClosure ==
    \A k \in DOMAIN out_units :
        LET unit == out_units[k]
            known == {n \in UsedTypeNames(unit) : GetType(type_registry, n) # None}
        IN  /\ \A n \in known :
                  GetType(type_registry, n)[1] \in Range(unit.required_headers)
            /\ \A h \in Range(unit.required_headers) :
                  \E n \in known : GetType(type_registry, n)[1] = h

\* C10's case: over two files, a unit whose function uses a name the registry
\* does not know and then one it knows, and carries the definition of the latter.
C10_Witness ==
    /\ sl_pc = "written"
    /\ sl_nfiles = 2
    /\ \E k \in DOMAIN out_units :
          /\ Len(out_units[k].code) = 2
          /\ out_units[k].code[1].kind = "type_identifier"
          /\ out_units[k].code[2].kind = "type_identifier"
          /\ GetType(type_registry, out_units[k].code[1].text) = None
          /\ GetType(type_registry, out_units[k].code[2].text) # None
          /\ out_units[k].required_headers =
                <<GetType(type_registry, out_units[k].code[2].text)[1]>>

\* The first position of the function's traversal that holds a call of the
\* callee, and the first that holds a type name whose stored definition is def.
FirstCall(unit, callee) ==
    MinOf({i \in DOMAIN unit.code :
              unit.code[i].kind = "call_expression" /\ unit.code[i].text = callee})

FirstUse(unit, def) ==
    MinOf({i \in DOMAIN unit.code :
              /\ unit.code[i].kind = "type_identifier"
              /\ GetType(type_registry, unit.code[i].text) = Some(def)})

\* C11 (slicer dedup): in every emitted unit no callee occurs twice in
\* dependencies and no definition text twice in required_headers, and both are
\* in the order of the first occurrence in the traversal of the function.
C11_SlicerDedup ==
    \A k \in DOMAIN out_units :
        LET unit == out_units[k]
            deps == unit.dependencies
            hdrs == unit.required_headers
        IN  /\ \A p, q \in DOMAIN deps : p < q =>
                  /\ deps[p] # deps[q]
                  /\ FirstCall(unit, deps[p]) < FirstCall(unit, deps[q])
            /\ \A p, q \in DOMAIN hdrs : p < q =>
                  /\ hdrs[p] # hdrs[q]
                  /\ FirstUse(unit, hdrs[p]) < FirstUse(unit, hdrs[q])
            /\ Range(deps) =
                  {unit.code[i].text : i \in {i \in DOMAIN unit.code :
                                          unit.code[i].kind = "call_expression"}}

\* C11's case: a function that uses two type names of one definition text
\* carries that text once.
C11_Witness ==
    /\ sl_pc = "written"
    /\ \E k \in DOMAIN out_units :
          /\ Len(out_units[k].code) = 2
          /\ out_units[k].code[1].kind = "type_identifier"
          /\ out_units[k].code[2].kind = "type_identifier"
          /\ out_units[k].code[1].text # out_units[k].code[2].text
          /\ GetType(type_registry, out_units[k].code[1].text) # None
          /\ GetType(type_registry, out_units[k].code[1].text) =
                GetType(type_registry, out_units[k].code[2].text)
          /\ Len(out_units[k].required_headers) = 1

(***************************************************************************)
(* Properties of the conductor.                                            *)
(***************************************************************************)
RowsOf(T, id) == {r \in T : r.id = id}

Started(f) == f.pc # "created"

Terminal(r) == r.state \in {"COMPLETED", "FAILED"}

C4_Terminality ==
    [][\A r \in tasks :
          Terminal(r) =>
              \E q \in tasks' :
                  /\ q.id = r.id
                  /\ (r.code_rust # None => q.code_rust # None)
                  /\ (r.error_log # None => q.error_log # None)]_vars

\* C5 (idempotent create_task): a create_task that returns Ok adds exactly the
\* Pending row of the id, with null code_rust and error_log, when the id has no
\* row, and leaves the table as it is when the id has one; either way the id
\* has one row afterwards and a second create_task changes nothing.
C5_IdempotentCreate ==
    [][(cd_pc = "dispatch" /\ cd_pc' = "mark") =>
          /\ IF HasRow(tasks, CurrentUnit)
             THEN tasks' = tasks
             ELSE /\ tasks \subseteq tasks'
                  /\ tasks' \ tasks =
                         {Row(CurrentUnit, CurrentUnit, "PENDING", None, None)}
          /\ Cardinality(RowsOf(tasks', CurrentUnit)) = 1
          /\ CreateTask(tasks', CurrentUnit, CurrentUnit) = tasks']_vars

\* In a second run create_task has returned for a unit whose row is Completed
\* and holds code.
C5_Witness ==
    /\ cd_run = 2
    /\ cd_pc = "mark"
    /\ \E r \in tasks :
          /\ r.id = CurrentUnit
          /\ r.state = "COMPLETED"
          /\ r.code_rust = Some(RustCode(CurrentUnit))

\* C6 (outcome recording): when process_unit's update of an In-Progress row
\* succeeds, the row is Completed with the code and no error if transpile and
\* verify succeeded, Failed with the code and the verifier's error if verify
\* failed, and Failed with no code and the transpile error if transpile failed.
C6_OutcomeRecording ==
    [][\A k \in DOMAIN futures :
          LET f == futures[k]
          IN  (/\ f.pc = "write"
               /\ GetTaskState(tasks, f.unit) = Some("IN_PROGRESS")
               /\ futures'[k].pc = "done"
               /\ futures'[k].res = "ok")
              => RowsOf(tasks', f.unit) =
                     {Row(f.unit, f.unit,
                          IF f.tr = "ok" /\ f.vr = "ok" THEN "COMPLETED" ELSE "FAILED",
                          IF f.tr = "ok" THEN Some(RustCode(f.unit)) ELSE None,
                          IF f.tr # "ok" THEN Some(TranspileError(f.unit))
                          ELSE IF f.vr # "ok" THEN Some(VerifyError(f.unit))
                          ELSE None)}]_vars

\* A process_unit whose verification failed has returned Ok and the row holds
\* the candidate code and the verifier's error.
C6_Witness ==
    \E k \in DOMAIN futures :
        /\ futures[k].pc = "done"
        /\ futures[k].res = "ok"
        /\ futures[k].tr = "ok"
        /\ futures[k].vr = "err"
        /\ Row(futures[k].unit, futures[k].unit, "FAILED",
               Some(RustCode(futures[k].unit)),
               Some(VerifyError(futures[k].unit))) \in tasks

\* C13 (task lifecycle): over the runs of the conductor a row appears in state
\* Pending, and the state of a row stays as it is or changes by one of Pending
\* to In-Progress, In-Progress to Completed, In-Progress to Failed; so no row
\* leaves Completed or Failed.
C13_TaskLifecycle ==
    [][\A q \in tasks' :
          IF HasRow(tasks, q.id)
          THEN \E r \in tasks :
                  /\ r.id = q.id
                  /\ \/ r.state = q.state
                     \/ <<r.state, q.state>> \in
                            {<<"PENDING", "IN_PROGRESS">>,
                             <<"IN_PROGRESS", "COMPLETED">>,
                             <<"IN_PROGRESS", "FAILED">>}
          ELSE q.state = "PENDING"]_vars

\* C16 (verification is a suspension point): whenever the process_unit of a
\* unit is in its verification and the process_unit of another unit of the
\* batch has not yet completed its oracle call, that one can complete it.
C16_VerifySuspends ==
    \A j, k \in DOMAIN futures :
        (/\ cd_pc = "join"
         /\ futures[j].batch = batch_i
         /\ futures[k].batch = batch_i
         /\ futures[j].pc = "verify"
         /\ futures[k].pc = "created")
            => ENABLED ProcessTranspile(k)

\* The ids of the build order.
BuildOrderIds == UNION {Range(build_order[p]) : p \in DOMAIN build_order}

\* C17 (conductor liveness): when every store write succeeds and every oracle
\* call and verification returns, a run that is under way reaches the end of
\* main, and at the end of main every id of the build order that the unit map
\* holds has a row that is Completed or Failed, no row is Pending or
\* In-Progress, and an id of the build order that the unit map does not hold
\* has no row.
C17_ConductorLiveness ==
    /\ [](cd_pc = "done" =>
             /\ \A id \in BuildOrderIds \cap units_map :
                   /\ Cardinality(RowsOf(tasks, id)) = 1
                   /\ \A r \in RowsOf(tasks, id) : Terminal(r)
             /\ \A id \in BuildOrderIds \ units_map : ~HasRow(tasks, id)
             /\ \A r \in tasks : r.state \notin {"PENDING", "IN_PROGRESS"})
    /\ (cd_pc \in {"dispatch", "mark", "join"}) ~> (cd_pc = "done")

\* C17's case: a run over two batches has ended; the unit of the first batch
\* is not in the unit map, the unit of the second failed its verification.
C17_Witness ==
    /\ cd_pc = "done"
    /\ Len(build_order) = 2
    /\ Len(build_order[1]) = 1
    /\ Len(build_order[2]) = 1
    /\ build_order[1][1] \notin units_map
    /\ build_order[2][1] \in units_map
    /\ tasks = {Row(build_order[2][1], build_order[2][1], "FAILED",
                    Some(RustCode(build_order[2][1])),
                    Some(VerifyError(build_order[2][1])))}

\* C7 (per-unit errors do not abort): when a run has ended, every unit of the
\* build order that units.json holds has been processed to its end, except at
\* most the one unit whose store write failed in the dispatch loop.
C7_ErrorsDoNotAbort ==
    cd_pc \in {"done", "aborted"} =>
        \A p \in DOMAIN build_order : \A q \in DOMAIN build_order[p] :
            (/\ build_order[p][q] \in units_map
             /\ ~(cd_pc = "aborted" /\ p = batch_i /\ q = unit_pos))
                => \E k \in DOMAIN futures :
                       /\ futures[k].unit = build_order[p][q]
                       /\ futures[k].pc = "done"

====
